---------------------------- MODULE Spec2Model ----------------------------
(***************************************************************************)
(* Model of nested_sampling/nested_integrator.py: the nested sampling      *)
(* evidence integration loop (nested_integrator), its accumulator merge    *)
(* and its remainder estimator (integrate_remainder).                      *)
(*                                                                         *)
(* Numbers.  The program computes in IEEE double precision.  The model     *)
(* computes in fixed point: a finite float v is the integer                *)
(* round(v * Scale).  The three special floats the program can produce     *)
(* are kept as three reserved integers: Inf (+infinity), NegInf            *)
(* (-infinity) and NaN.  Every arithmetic operator below follows the IEEE  *)
(* rules for the special values (inf - inf = nan, 0 * inf = nan,           *)
(* log(0) = -inf, log(x < 0) = nan, any comparison with nan is false) and  *)
(* computes the finite case in integer arithmetic at resolution 1/Scale.   *)
(***************************************************************************)
EXTENDS Integers, Sequences, FiniteSets

(***************************************************************************)
(* Resolution of the fixed-point numbers: 1/Scale.                         *)
(***************************************************************************)
Scale == 1000

Inf == Scale * 1000000
NegInf == 0 - Inf
NaN == Inf + 1

IsNaN(a) == a = NaN
IsFinite(a) == a > NegInf /\ a < Inf

\* A finite result outside the representable range overflows to an infinity.
Clamp(v) == IF v >= Inf THEN Inf ELSE IF v <= NegInf THEN NegInf ELSE v

\* ln 2 at the model's resolution (numpy: NPY_LOGE2).
LN2 == (693147 * Scale) \div 1000000

\* float(n) for a Python int n.
FromInt(n) == n * Scale

\* Python's float `a + b`.
fadd(a, b) ==
    IF IsNaN(a) \/ IsNaN(b) THEN NaN
    ELSE IF a = Inf THEN (IF b = NegInf THEN NaN ELSE Inf)
    ELSE IF a = NegInf THEN (IF b = Inf THEN NaN ELSE NegInf)
    ELSE IF b = Inf \/ b = NegInf THEN b
    ELSE Clamp(a + b)

\* Python's float `-a`.
fneg(a) == IF IsNaN(a) THEN NaN ELSE 0 - a

\* Python's float `a - b`.
fsub(a, b) == fadd(a, fneg(b))

\* Python's float `a * b`.
fmul(a, b) ==
    IF IsNaN(a) \/ IsNaN(b) THEN NaN
    ELSE IF IsFinite(a) /\ IsFinite(b) THEN Clamp((a * b) \div Scale)
    ELSE IF a = 0 \/ b = 0 THEN NaN
    ELSE IF (a > 0) = (b > 0) THEN Inf ELSE NegInf

\* Python's float `a / n` for a positive int n (true division).
fdiv(a, n) == IF IsFinite(a) THEN a \div n ELSE a

\* Python's `a < b` on floats: false as soon as one side is nan.
flt(a, b) == ~IsNaN(a) /\ ~IsNaN(b) /\ a < b

\* Python's `a < b / 10.` on floats, the quotient exact: for a and b at
\* resolution 1/Scale, a < b / 10 exactly when a < ceil(b / 10).
LessThanTenth(a, b) ==
    /\ ~IsNaN(a) /\ ~IsNaN(b)
    /\ IF IsFinite(a) /\ IsFinite(b) THEN a < 0 - ((0 - b) \div 10) ELSE a < b

\* Python's builtin max(a, b): b if b > a, else a (so max(nan, x) = nan).
fmax(a, b) == IF flt(a, b) THEN b ELSE a

\* r * r <= a * Scale for r > 0 and a >= 0, as r <= floor(a * Scale / r), the
\* quotient taken in two parts so that no product leaves the integer range.
SquareWithin(r, a) ==
    \/ a \div r >= r
    \/ r <= (a \div r) * Scale + ((a % r) * Scale) \div r

RECURSIVE SqrtSearch(_, _, _)
\* Largest r in lo..hi with r * r <= a * Scale: sqrt(a) at resolution 1/Scale.
SqrtSearch(a, lo, hi) ==
    IF lo >= hi THEN lo
    ELSE LET mid == (lo + hi + 1) \div 2
         IN IF SquareWithin(mid, a) THEN SqrtSearch(a, mid, hi)
            ELSE SqrtSearch(a, lo, mid - 1)

\* numpy.float64 `a ** 0.5` (C pow): nan for a negative finite base,
\* pow(-inf, 0.5) = +inf.  The root of a finite a lies below sqrt(Inf/Scale).
pow_half(a) ==
    IF IsNaN(a) THEN NaN
    ELSE IF a = Inf \/ a = NegInf THEN Inf
    ELSE IF a < 0 THEN NaN
    ELSE SqrtSearch(a, 0, Scale * 1000)

\* Internal resolution of the series below: 1/Prec.
Prec == 16 * Scale

\* round(v * Scale / Prec): a value at resolution 1/Prec brought back to 1/Scale.
Round(v) == (2 * v * Scale + Prec) \div (2 * Prec)

\* ln 2 in units of 1/(1000 * Scale): the part of ln 2 below the resolution
\* of LN2 is LN2Fine - 1000 * LN2.
LN2Fine == (693147 * Scale) \div 1000

\* e^(r/Scale) * Prec for 0 <= r <= LN2, by the Taylor series (Horner form).
ExpSeries(r) ==
    LET x  == (r * Prec) \div Scale
        t8 == Prec + (x * Prec) \div (8 * Prec)
        t7 == Prec + (x * t8) \div (7 * Prec)
        t6 == Prec + (x * t7) \div (6 * Prec)
        t5 == Prec + (x * t6) \div (5 * Prec)
        t4 == Prec + (x * t5) \div (4 * Prec)
        t3 == Prec + (x * t4) \div (3 * Prec)
        t2 == Prec + (x * t3) \div (2 * Prec)
    IN  Prec + (x * t2) \div Prec

\* ExpSeries tabulated once.
ExpFrac == [r \in 0..LN2 |-> ExpSeries(r)]

\* The mantissa t = e^r * Prec of a = q * LN2 + r, corrected to first order
\* by the factor e^(-q * (ln 2 - LN2)).
ExpMantissa(t, q) == t - (t * (q * (LN2Fine - 1000 * LN2))) \div (1000 * Scale)

\* m * 2^q / 16, rounded: a mantissa at resolution 1/Prec = 1/(16 * Scale)
\* scaled by 2^q and brought to resolution 1/Scale.
ExpShift(m, q) ==
    IF q >= 4 THEN Clamp(m * (2 ^ (q - 4)))
    ELSE IF q >= 0 THEN (m * (2 ^ q) + 8) \div 16
    ELSE (m + 2 ^ (3 - q)) \div (2 ^ (4 - q))

\* exp of a finite a with q = floor(a / LN2): overflow to inf from 2^21,
\* underflow to 0.
ExpReduced(a, q) ==
    IF q >= 21 THEN Inf
    ELSE IF q <= 0 - 26 THEN 0
    ELSE ExpShift(ExpMantissa(ExpFrac[a - q * LN2], q), q)

\* numpy.exp: exp(-inf) = 0, underflow to 0, overflow to inf.  The argument
\* is reduced as a = q * LN2 + r and the result is e^r * 2^q.
exp(a) ==
    IF IsNaN(a) THEN NaN
    ELSE IF a = Inf THEN Inf
    ELSE IF a = NegInf THEN 0
    ELSE ExpReduced(a, a \div LN2)

\* ln(m/Scale) * Scale for Scale <= m < 2 * Scale, by the atanh series.
LogSeries(m) ==
    LET z  == ((m - Scale) * Prec) \div (m + Scale)
        z2 == (z * z) \div Prec
        t4 == Prec \div 9
        t3 == Prec \div 7 + (z2 * t4) \div Prec
        t2 == Prec \div 5 + (z2 * t3) \div Prec
        t1 == Prec \div 3 + (z2 * t2) \div Prec
        t0 == Prec + (z2 * t1) \div Prec
        v  == Round((2 * z * t0) \div Prec)
    IN  IF v > LN2 THEN LN2 ELSE v

\* LogSeries tabulated once.
LogFrac == [m \in Scale..(2 * Scale) |-> LogSeries(m)]

\* round(k * ln 2 * Scale) for an integer k.
TimesLn2(k) ==
    IF k >= 0 THEN (k * LN2Fine + 500) \div 1000
    ELSE 0 - ((0 - k) * LN2Fine + 500) \div 1000

RECURSIVE LogPosFrom(_, _)
\* ln(y * 2^k / Scale) * Scale for y > 0: y is brought into Scale..2*Scale,
\* the halvings and doublings counted in k.
LogPosFrom(y, k) ==
    IF y >= 2 * Scale THEN LogPosFrom(y \div 2, k + 1)
    ELSE IF y < Scale THEN LogPosFrom(2 * y, k - 1)
    ELSE LogFrac[y] + TimesLn2(k)

\* ln(y/Scale) * Scale for a finite y > 0.
LogPos(y) == LogPosFrom(y, 0)

RECURSIVE LogIntFrom(_, _)
\* ln(n * 2^k) * Scale for a Python int n > 0, n * Scale kept in range.
LogIntFrom(n, k) ==
    IF n >= 1000000 THEN LogIntFrom(n \div 2, k + 1)
    ELSE LogPosFrom(n * Scale, k)

\* numpy.log: log(0) = -inf, log of a negative number = nan.
log(a) ==
    IF IsNaN(a) THEN NaN
    ELSE IF a = Inf THEN Inf
    ELSE IF a < 0 THEN NaN
    ELSE IF a = 0 THEN NegInf
    ELSE LogPos(a)

\* numpy.logaddexp (npy_logaddexp): log(exp(a) + exp(b)).
logaddexp(a, b) ==
    IF IsNaN(a) \/ IsNaN(b) THEN NaN
    ELSE IF a = b THEN fadd(a, LN2)
    ELSE LET tmp == fsub(a, b)
         IN IF tmp > 0 THEN fadd(a, log(fadd(Scale, exp(fneg(tmp)))))
            ELSE fadd(b, log(fadd(Scale, exp(tmp))))

(***************************************************************************)
(* Bounds of the model.                                                    *)
(***************************************************************************)
\* Live-set sizes (sampler.nlive_points) explored.
NlivePoints == {1, 2, 3}
\* The loop is followed up to iteration MaxIter.
MaxIter == 12
\* Numbers of likelihood evaluations a next() call of the sampler costs: a
\* run is made with a sampler of one of these costs.
Costs == {1, 2}

\* Log-likelihood values a point of the sampler may have.
Levels == {0 - 2 * Scale, 0, (23 * Scale) \div 10, (5 * Scale) \div 2}

\* Values of the `tolerance` argument explored.
Tolerances == {Scale \div 2}

\* max_samples=None.
None == 0 - 1

\* Values of the `max_samples` argument explored.
MaxSamplesValues == {None, 1, 6}

(***************************************************************************)
(* The Sampler (external collaborator; contract of spec section 6).        *)
(* A point (u, x, L) is [id, L]: id stands for the coordinates u and x.    *)
(***************************************************************************)
Point(id, L) == [id |-> id, L |-> L]

RECURSIVE SortedInsert(_, _)
\* The live set with point p added, ascending by L.
SortedInsert(s, p) ==
    IF s = <<>> THEN <<p>>
    ELSE IF p.L < Head(s).L THEN <<p>> \o s
    ELSE <<Head(s)>> \o SortedInsert(Tail(s), p)

\* All live sets of n points, ascending by L, ids 1..n.
RECURSIVE LiveSets(_)
LiveSets(n) ==
    IF n = 0 THEN {<<>>}
    ELSE {Append(s, Point(n, l)) : s \in LiveSets(n - 1), l \in Levels}

\* The likelihoods a new live point can have when the worst live point, of
\* likelihood Lmin, is replaced: above Lmin (the likelihood constraint of
\* nested sampling), or on the plateau of the highest level.
Constrained(Lmin) ==
    {l \in Levels : l > Lmin \/ (l = Lmin /\ \A m \in Levels : m <= l)}

IsAscending(s) == \A k \in 1..(Len(s) - 1) : s[k].L <= s[k + 1].L

\* sampler.next(): the worst live point is handed out and replaced by a new
\* point newL, at the sampler's cost in likelihood evaluations.
SamplerNext(s, newL) ==
    [live   |-> SortedInsert(Tail(s.live), Point(s.nextid, newL)),
     Lmax   |-> IF newL > s.Lmax THEN newL ELSE s.Lmax,
     ndraws |-> s.ndraws + s.cost,
     cost   |-> s.cost,
     nextid |-> s.nextid + 1]

\* sampler.remainder(): the live points, ascending by L.
SamplerRemainder(s) == s.live

(***************************************************************************)
(* Evidence accumulator: lines 190-193 (and 95-98).                        *)
(***************************************************************************)
\* merge with line 191 losing its logaddexp: logZnew = wi.
merge_Overwrite(logZ, H, logwidth, Li) ==
    LET wi      == fadd(logwidth, Li)
        logZnew == wi
    IN  [logZ |-> logZnew,
         H    |-> fsub(fadd(fmul(exp(fsub(wi, logZnew)), Li),
                            fmul(exp(fsub(logZ, logZnew)), fadd(H, logZ))),
                       logZnew)]

merge(logZ, H, logwidth, Li) ==
    LET wi      == fadd(logwidth, Li)
        logZnew == logaddexp(logZ, wi)
    IN  [logZ |-> logZnew,
         H    |-> fsub(fadd(fmul(exp(fsub(wi, logZnew)), Li),
                            fmul(exp(fsub(logZ, logZnew)), fadd(H, logZ))),
                       logZnew)]

(***************************************************************************)
(* Remainder estimator: integrate_remainder, lines 45-100.                 *)
(***************************************************************************)
RECURSIVE SumFrom(_, _, _)
\* numpy: a[lo-1:hi].sum() of floats.
SumFrom(a, lo, hi) == IF lo > hi THEN 0 ELSE fadd(a[lo], SumFrom(a, lo + 1, hi))

\* The sorted index arrays numpy.random.randint(0, n, n) can give after sort().
RECURSIVE AscendingIndexes(_, _)
AscendingIndexes(len, n) ==
    IF len = 0 THEN {<<>>}
    ELSE UNION {{Append(s, k) : k \in (IF s = <<>> THEN 1 ELSE s[Len(s)])..n} :
                s \in AscendingIndexes(len - 1, n)}

Resamples(n) == AscendingIndexes(n, n)

RECURSIVE MergeAll(_, _, _, _)
\* Lines 93-98: the live points merged one after the other into logZ and H.
MergeAll(remainder, k, logwidth, acc) ==
    IF k > Len(remainder) THEN acc
    ELSE MergeAll(remainder, k + 1, logwidth,
                  merge(acc.logZ, acc.H, logwidth, remainder[k].L))

\* numpy.max / numpy.min of two floats: nan as soon as one is nan.
npmax(a, b) == IF IsNaN(a) \/ IsNaN(b) THEN NaN ELSE IF a < b THEN b ELSE a
npmin(a, b) == IF IsNaN(a) \/ IsNaN(b) THEN NaN ELSE IF b < a THEN b ELSE a

\* Lines 85-90: the two values one bootstrap resample `idx` appends.
BootstrapPair(Ls, LsMax, idx, logZ, logV, L0) ==
    LET n     == Len(idx)
        bsMax == [k \in 1..n |-> LsMax[idx[k]]]
        bsLs  == [k \in 1..n |-> Ls[idx[k]]]
        Lmax  == fadd(SumFrom(bsMax, 2, n), bsMax[n])
        Lmin  == fadd(SumFrom(bsLs, 1, n - 1), bsLs[1])
    IN  <<logaddexp(logZ, fadd(fadd(logV, log(Lmax)), L0)),
          logaddexp(logZ, fadd(fadd(logV, log(Lmin)), L0))>>

\* Lines 81-91: the values bs_logZerr can take.  The 20 random resamples
\* enter through the resample that gave the largest and the one that gave the
\* smallest collected value: bs_logZerr is the max minus the min of the
\* collection, and any two resamples can be among the 20 drawn.
BootstrapErrors(Ls, LsMax, logZ, logV, L0) ==
    LET pairs == {BootstrapPair(Ls, LsMax, idx, logZ, logV, L0) :
                  idx \in Resamples(Len(Ls))}
    IN  {fsub(npmax(npmax(pa[1], pa[2]), npmax(pb[1], pb[2])),
              npmin(npmin(pa[1], pa[2]), npmin(pb[1], pb[2]))) :
         pa \in pairs, pb \in pairs}

\* Line 49 taking the first live point: L0 = remainder[0][2].
RebaseLevel_First(remainder) == remainder[1].L

\* Line 49: the likelihood L0 the live likelihoods are rebased to.
RebaseLevel(remainder) == remainder[Len(remainder)].L

\* Line 71 with the slice [1:] forgotten: LsMax.sum() + LsMax[-1].
UpperSum_Full(LsMax) == fadd(SumFrom(LsMax, 1, Len(LsMax)), LsMax[Len(LsMax)])

\* Line 71: the upper sum LsMax[1:].sum() + LsMax[-1].
UpperSum(LsMax) == fadd(SumFrom(LsMax, 2, Len(LsMax)), LsMax[Len(LsMax)])

\* Line 73 over the whole array: Ls.sum() + Ls[0].
LowerSum_Full(Ls) == fadd(SumFrom(Ls, 1, Len(Ls)), Ls[1])

\* Line 73: the lower sum Ls[:-1].sum() + Ls[0].
LowerSum(Ls) == fadd(SumFrom(Ls, 1, Len(Ls) - 1), Ls[1])

\* Line 74: the mid sum Ls.sum().
MidSum(Ls) == SumFrom(Ls, 1, Len(Ls))

\* Lines 49-78: the rebased likelihoods, the upper, lower and mid sums, and
\* the three evidence estimates.
Brackets(remainder, logwidth, logZ, globalLmax) ==
    LET n       == Len(remainder)
        logV    == logwidth
        L0      == RebaseLevel(remainder)
        Ls      == [k \in 1..n |-> exp(fsub(remainder[k].L, L0))]
        LsMax   == [Ls EXCEPT ![n] = exp(fsub(globalLmax, L0))]
        Lmax    == UpperSum(LsMax)
        Lmin    == LowerSum(Ls)
        Lmid    == MidSum(Ls)
        logLmid == fadd(log(Lmid), L0)
    IN  [L0 |-> L0, Ls |-> Ls, LsMax |-> LsMax,
         Lmax |-> Lmax, Lmin |-> Lmin, Lmid |-> Lmid, logLmid |-> logLmid,
         logZmid |-> logaddexp(logZ, fadd(logV, logLmid)),
         logZup  |-> logaddexp(logZ, fadd(fadd(logV, log(Lmax)), L0)),
         logZlo  |-> logaddexp(logZ, fadd(fadd(logV, log(Lmin)), L0))]

\* Line 100 with the trailing loop of lines 93-98 deleted: the H passed in.
ErrorH_PassedIn(remainder, logwidth, logZ, H) == H

\* Lines 93-100: the H that enters the two returned total errors, which is
\* the local H once the trailing loop has merged the live points into it.
ErrorH(remainder, logwidth, logZ, H) ==
    MergeAll(remainder, 1, logwidth, [logZ |-> logZ, H |-> H]).H

\* integrate_remainder(sampler, logwidth, logVolremaining, logZ, H, globalLmax):
\* the records it can return, one per outcome of the random resampling.
integrate_remainder(remainder, nlive, logwidth, logVolremaining, logZ, H, globalLmax) ==
    LET b       == Brackets(remainder, logwidth, logZ, globalLmax)
        logV    == logwidth
        logZerr == fsub(b.logZup, b.logZlo)
        stat    == pow_half(fdiv(ErrorH(remainder, logwidth, logZ, H), nlive))
    IN  {[remainderZ             |-> fadd(logV, b.logLmid),
          remainderZerr          |-> logZerr,
          totalZ                 |-> b.logZmid,
          totalZerr              |-> fadd(logZerr, stat),
          totalZerr_bootstrapped |-> fadd(bs_logZerr, stat)] :
         bs_logZerr \in BootstrapErrors(b.Ls, b.LsMax, logZ, logV, b.L0)}

(***************************************************************************)
(* State of one call nested_integrator(sampler, tolerance, max_samples,    *)
(* need_small_remainder, max_remainder, need_robust_remainder_error).      *)
(***************************************************************************)
VARIABLES
    \* the arguments
    tolerance, max_samples, need_small_remainder, max_remainder,
    need_robust_remainder_error,
    \* the Sampler: [live, Lmax, ndraws, cost, nextid], and its nlive_points
    sampler, nlive_points,
    \* the locals of nested_integrator
    pc, i, logVolremaining, logwidth, weights, pt, logZ, H, logZerr,
    remainderZ, remainderZerr, totalZ, totalZerr, totalZerr_bootstrapped,
    \* the iteration whose integrate_remainder call assigned these five locals
    estimated_at,
    \* what the function printed when it left the loop, and what it returned
    printed, result,
    \* observation of the Sampler interface: a next() call is in progress; the
    \* calls started so far; the points next() has returned, in order, each
    \* with the logwidth that was added to its likelihood (lines 137 and 190)
    busy, calls, drawn

args == <<tolerance, max_samples, need_small_remainder, max_remainder,
          need_robust_remainder_error, nlive_points>>
estimate == <<remainderZ, remainderZerr, totalZ, totalZerr, totalZerr_bootstrapped,
             estimated_at>>
vars == <<args, sampler, pc, i, logVolremaining, logwidth, weights, pt, logZ, H,
          logZerr, estimate, printed, result, busy, calls, drawn>>

\* Lines 148 and 198: the weight record [ui, xi, Li, logwidth] of a point.
WeightRecord(p, lw) == [id |-> p.id, L |-> p.L, logwidth |-> lw]

\* t / (k * n) at resolution 1/Prec for 0 <= t <= Prec: nothing once n
\* exceeds Prec.
Over(t, k, n) == IF n > Prec THEN 0 ELSE t \div (k * n)

\* n * (1 - exp(-1/n)) at resolution 1/Prec, by the Taylor series of
\* 1 - exp(-x) at x = 1/n (Horner form):
\* 1 - (1/2n)(1 - (1/3n)(1 - (1/4n)( ... (1 - 1/9n)))).
ShrinkSeries(n) ==
    LET t9 == Prec - Over(Prec, 9, n)
        t8 == Prec - Over(t9, 8, n)
        t7 == Prec - Over(t8, 7, n)
        t6 == Prec - Over(t7, 6, n)
        t5 == Prec - Over(t6, 5, n)
        t4 == Prec - Over(t5, 4, n)
        t3 == Prec - Over(t4, 3, n)
    IN  Prec - Over(t3, 2, n)

\* Line 128 and line 145: log(1 - exp(-1. / sampler.nlive_points)).  1/n is
\* below the resolution 1/Scale for a large n while the logarithm is not, so
\* the value is taken as -log(n) + log(n * (1 - exp(-1/n))), log(n) from the
\* integer n.
LogShrink(n) == fadd(0 - LogIntFrom(n, 0), log(Round(ShrinkSeries(n))))

\* A local that has not been assigned yet (reading it would be a NameError).
Unbound == NaN

\* Lines 127-135: the state before the first sampler.next().
Init ==
    /\ tolerance \in Tolerances
    /\ max_samples \in MaxSamplesValues
    /\ need_small_remainder \in BOOLEAN
    /\ max_remainder = Scale \div 10
    /\ need_robust_remainder_error \in BOOLEAN
    /\ nlive_points \in NlivePoints
    /\ \E s \in LiveSets(nlive_points), c \in Costs :
          /\ IsAscending(s)
          /\ sampler = [live |-> s, Lmax |-> s[Len(s)].L, ndraws |-> nlive_points,
                        cost |-> c, nextid |-> nlive_points + 1]
    /\ pc = "init"
    /\ i = 0
    /\ logVolremaining = 0
    /\ logwidth = LogShrink(nlive_points)
    /\ weights = <<>>
    /\ pt = Point(0, Unbound)
    /\ logZ = Unbound
    /\ H = Unbound
    /\ logZerr = Unbound
    /\ remainderZ = Unbound
    /\ remainderZerr = Unbound
    /\ totalZ = Unbound
    /\ totalZerr = Unbound
    /\ totalZerr_bootstrapped = Unbound
    /\ estimated_at = 0
    /\ printed = "nothing"
    /\ result = [set |-> FALSE]
    /\ busy = FALSE
    /\ calls = [next |-> 0, remainder |-> 0, integrate |-> 0]
    /\ drawn = <<>>

\* Line 136, first half: sampler.next() is called.
CallFirst ==
    /\ pc = "init"
    /\ pc' = "seed"
    /\ busy' = TRUE
    /\ calls' = [calls EXCEPT !.next = @ + 1]
    /\ UNCHANGED <<args, sampler, i, logVolremaining, logwidth, weights, pt, logZ, H,
                   logZerr, estimate, printed, result, drawn>>

\* Lines 136-139: the first point arrives and seeds logZ and H.
Seed ==
    /\ pc = "seed"
    /\ \E newL \in Constrained(sampler.live[1].L) :
          sampler' = SamplerNext(sampler, newL)
    /\ pt' = sampler.live[1]
    /\ drawn' = Append(drawn, WeightRecord(pt', logwidth))
    /\ logZ' = fadd(logwidth, pt'.L)
    /\ H' = fsub(pt'.L, logZ')
    /\ busy' = FALSE
    /\ pc' = "loop"
    /\ UNCHANGED <<args, i, logVolremaining, logwidth, weights, logZerr, estimate,
                   printed, result, calls>>

\* Line 164 with the period tested as i % 10 == 0.
Recompute_TenthMultiple(it, n) == it = 1 \/ (it > n /\ it % 10 = 0)

\* Line 164: whether this iteration recomputes the remainder estimate.
Recompute(it, n) == it = 1 \/ (it > n /\ it % 10 = 1)

\* Line 171 with the comparison off by one, stopping one draw late.
BudgetExhausted_Late(maxs, nd) == maxs # None /\ maxs + 1 < nd

\* Line 171 with <= in place of <, stopping as soon as the limit is reached.
BudgetExhausted_AtLimit(maxs, nd) == maxs # None /\ maxs <= nd

\* Line 171 with the comparison turned round: int(sampler.ndraws) < int(max_samples).
BudgetExhausted_Reversed(maxs, nd) == maxs # None /\ nd < maxs

\* Line 171: the budget rule.
BudgetExhausted(maxs, nd) == maxs # None /\ maxs < nd

\* Line 175: the tolerance rule.
ToleranceReached(total_error, tol, small, rZ, tZ, maxrem, robust, bsErr) ==
    /\ flt(total_error, tol)
    /\ (~small \/ flt(rZ, fadd(tZ, log(maxrem))))
    /\ (~robust \/ flt(bsErr, tol))

\* Line 181 without its divisor: remainderZerr < logZerr.
WillNotImprove_Whole(rZerr, zerr) == flt(rZerr, zerr)

\* Line 181: remainderZerr < logZerr / 10.
WillNotImprove(rZerr, zerr) == LessThanTenth(rZerr, zerr)

\* Lines 168-184 with the gate of line 168 written i >= sampler.nlive_points.
StopRule_FromNlive(it, n, maxs, nd, tol, small, maxrem, robust, est, zerr) ==
    IF ~(it >= n) THEN "none"
    ELSE IF BudgetExhausted(maxs, nd) THEN "budget"
    ELSE IF ToleranceReached(est.totalZerr, tol, small, est.remainderZ, est.totalZ,
                             maxrem, robust, est.totalZerr_bootstrapped)
         THEN "tolerance"
    ELSE IF WillNotImprove(est.remainderZerr, zerr) THEN "no_improvement"
    ELSE "none"

\* Lines 168-184: the rule that ends the loop in iteration `it`, "none" if the
\* loop goes on to line 189.
StopRule(it, n, maxs, nd, tol, small, maxrem, robust, est, zerr) ==
    IF ~(it > n) THEN "none"
    ELSE IF BudgetExhausted(maxs, nd) THEN "budget"
    ELSE IF ToleranceReached(est.totalZerr, tol, small, est.remainderZ, est.totalZ,
                             maxrem, robust, est.totalZerr_bootstrapped)
         THEN "tolerance"
    ELSE IF WillNotImprove(est.remainderZerr, zerr) THEN "no_improvement"
    ELSE "none"

\* Lines 173, 177, 183: what is printed on leaving the loop.
Message(rule) ==
    CASE rule = "budget" -> "maximum number of samples reached"
      [] rule = "tolerance" -> "tolerance on error reached"
      [] rule = "no_improvement" -> "tolerance will not improve"
      [] OTHER -> "nothing"

\* Line 189 moved above the stopping rules: next() called in every iteration.
IssuesNext_Always(rule) == TRUE

\* Line 189 is reached, and sampler.next() called, when no rule left the loop.
IssuesNext(rule) == rule = "none"

\* Line 198 left out: no live point is appended.
LiveRecords_Dropped(live, lw) == <<>>

\* Line 198: one weight record per live point, in remainder() order.
LiveRecords(live, lw) == [k \in 1..Len(live) |-> WeightRecord(live[k], lw)]

\* Line 198: the loop variables ui, xi, Li of the list comprehension are the
\* function's own locals (Python 2), so after it they hold the last live
\* point; with no live point they keep the last drawn point.
LeakedPoint(live, p) == IF live = <<>> THEN p ELSE live[Len(live)]

\* Lines 199-200 without the max: the bracket-based error alone.
ReportedError_Bracket(robust, tZerr, bsErr) == tZerr

\* Lines 199-200: the totalZerr that is returned.
ReportedError(robust, tZerr, bsErr) == IF robust THEN fmax(tZerr, bsErr) ELSE tZerr

\* Line 202 reading the H that integrate_remainder rebound at line 97.
ReturnedInformation_Rebound(h, hEstimator) == hEstimator

\* Line 202: information=H reads nested_integrator's own H; the H that
\* integrate_remainder rebinds at line 97 is local to that call.
ReturnedInformation(h, hEstimator) == h

\* The five remainder locals as one record.
Estimate == [remainderZ |-> remainderZ, remainderZerr |-> remainderZerr,
             totalZ |-> totalZ, totalZerr |-> totalZerr,
             totalZerr_bootstrapped |-> totalZerr_bootstrapped]

\* Lines 144-184 of one iteration and, when no rule stops the loop, the call
\* of sampler.next() at line 189.
Iterate ==
    /\ pc = "loop"
    /\ i < MaxIter
    /\ i' = i + 1
    /\ logwidth' = fadd(LogShrink(nlive_points), logVolremaining)
    /\ logVolremaining' = fsub(logVolremaining, fdiv(FromInt(1), nlive_points))
    /\ weights' = Append(weights, WeightRecord(pt, logwidth'))
    /\ logZerr' = pow_half(fdiv(H, nlive_points))
    /\ \E est \in IF Recompute(i', nlive_points)
                  THEN integrate_remainder(SamplerRemainder(sampler), nlive_points,
                           logwidth', logVolremaining', logZ, H, sampler.Lmax)
                  ELSE {Estimate} :
          /\ remainderZ' = est.remainderZ
          /\ remainderZerr' = est.remainderZerr
          /\ totalZ' = est.totalZ
          /\ totalZerr' = est.totalZerr
          /\ totalZerr_bootstrapped' = est.totalZerr_bootstrapped
    /\ estimated_at' = IF Recompute(i', nlive_points) THEN i' ELSE estimated_at
    /\ \E rule \in {StopRule(i', nlive_points, max_samples, sampler.ndraws, tolerance,
                             need_small_remainder, max_remainder,
                             need_robust_remainder_error, Estimate', logZerr')} :
          /\ printed' = Message(rule)
          /\ pc' = IF rule = "none" THEN "next" ELSE "exit"
          /\ busy' = IssuesNext(rule)
          /\ calls' = [next      |-> calls.next + (IF IssuesNext(rule) THEN 1 ELSE 0),
                       remainder |-> calls.remainder +
                                     (IF Recompute(i', nlive_points) THEN 1 ELSE 0),
                       integrate |-> calls.integrate +
                                     (IF Recompute(i', nlive_points) THEN 1 ELSE 0)]
    /\ UNCHANGED <<args, sampler, pt, logZ, H, result, drawn>>

\* Lines 189-193: the next point arrives and is merged into logZ and H.
Merge ==
    /\ pc = "next"
    /\ \E newL \in Constrained(sampler.live[1].L) :
          sampler' = SamplerNext(sampler, newL)
    /\ pt' = sampler.live[1]
    /\ drawn' = Append(drawn, WeightRecord(pt', logwidth))
    /\ LET m == merge(logZ, H, logwidth, pt'.L)
       IN  /\ logZ' = m.logZ
           /\ H' = m.H
    /\ busy' = FALSE
    /\ pc' = "loop"
    /\ UNCHANGED <<args, i, logVolremaining, logwidth, weights, logZerr, estimate,
                   printed, result, calls>>

\* Lines 197-203: the final remainder integration and the result record.
Finish ==
    /\ pc = "exit"
    /\ \E r \in integrate_remainder(SamplerRemainder(sampler), nlive_points,
                      logwidth, logVolremaining, logZ, H, sampler.Lmax) :
          LET live == SamplerRemainder(sampler)
          IN  /\ remainderZ' = r.remainderZ
              /\ remainderZerr' = r.remainderZerr
              /\ totalZ' = r.totalZ
              /\ totalZerr_bootstrapped' = r.totalZerr_bootstrapped
              /\ estimated_at' = i
              /\ totalZerr' = ReportedError(need_robust_remainder_error, r.totalZerr,
                                            r.totalZerr_bootstrapped)
              /\ weights' = weights \o LiveRecords(live, logwidth)
              /\ pt' = LeakedPoint(live, pt)
    /\ result' = [set |-> TRUE, logZ |-> totalZ', logZerr |-> totalZerr',
                  weights |-> weights',
                  information |-> ReturnedInformation(H,
                      ErrorH(SamplerRemainder(sampler), logwidth, logZ, H)),
                  niterations |-> i]
    /\ calls' = [calls EXCEPT !.remainder = @ + 2, !.integrate = @ + 1]
    /\ pc' = "done"
    /\ UNCHANGED <<args, sampler, i, logVolremaining, logwidth, logZ, H, logZerr,
                   printed, busy, drawn>>

Next == CallFirst \/ Seed \/ Iterate \/ Merge \/ Finish

Spec == Init /\ [][Next]_vars

(***************************************************************************)
(* Properties.                                                             *)
(***************************************************************************)
\* The stopping predicates of iteration i have just been evaluated: the loop
\* is either about to receive the next point or has been left.
Evaluated == pc \in {"next", "exit"} /\ i > nlive_points

\* The loop was left in iteration i without a sampler.next() call in it.
StoppedWithoutDraw == pc = "exit" /\ ~busy /\ calls.next = i

\* Once the loop is left, the next step returns the result record.
ReturnsResult ==
    pc = "exit" => (pc' = "done" /\ result'.set /\ result'.niterations = i
                    /\ sampler' = sampler)

(***************************************************************************)
(* C1, as stated: whenever the stopping predicates are evaluated with      *)
(* max_samples configured and sampler.ndraws >= max_samples, the loop      *)
(* stops in that iteration without drawing another point.                  *)
(***************************************************************************)
C1_Original ==
    (Evaluated /\ max_samples # None /\ sampler.ndraws >= max_samples)
        => StoppedWithoutDraw

\* C1: the loop stops on the budget as soon as the draw count exceeds it.
C1_Stops ==
    (Evaluated /\ max_samples # None /\ sampler.ndraws > max_samples)
        => (StoppedWithoutDraw /\ printed = "maximum number of samples reached")

(***************************************************************************)
(* C1, amended: whenever the stopping predicates are evaluated with        *)
(* max_samples configured and sampler.ndraws > max_samples (the count has  *)
(* exceeded the limit; reaching it is not enough), the loop stops in that  *)
(* iteration without drawing another point and the result record is        *)
(* returned.                                                               *)
(***************************************************************************)
C1_Amended == []C1_Stops /\ [][ReturnsResult]_vars

\* C1 witness: a run that stopped on the budget and returned its result.
C1_Witness ==
    /\ pc = "done"
    /\ printed = "maximum number of samples reached"
    /\ max_samples # None
    /\ sampler.ndraws > max_samples
    /\ i > nlive_points + 1
    /\ result.set

\* Rule (b) of C2 on the current remainder estimate.
C2_RuleB ==
    /\ flt(totalZerr, tolerance)
    /\ (~need_small_remainder
        \/ flt(remainderZ, fadd(totalZ, log(max_remainder))))
    /\ (~need_robust_remainder_error \/ flt(totalZerr_bootstrapped, tolerance))

\* Rule (c) of C2: remainderZerr < sqrt(H / nlive_points) / 10.
C2_RuleC == LessThanTenth(remainderZerr, pow_half(fdiv(H, nlive_points)))

\* C2: in a checked iteration where the budget rule does not fire, the loop
\* is left exactly when rule (b) or rule (c) holds.
C2_Decision ==
    (Evaluated /\ ~(max_samples # None /\ max_samples < sampler.ndraws))
        => ((pc = "exit") <=> (C2_RuleB \/ C2_RuleC))

\* C2: an iteration that does not stop draws one point, merges it, and the
\* loop goes on with iteration i + 1.
C2_Continues ==
    /\ pc = "next" =>
          /\ pc' = "loop"
          /\ i' = i
          /\ Len(drawn') = Len(drawn) + 1
          /\ calls' = calls
          /\ logZ' = logaddexp(logZ, fadd(logwidth, drawn'[Len(drawn')].L))
    /\ (pc = "loop" /\ pc' # "loop") => i' = i + 1

(***************************************************************************)
(* C2: at any iteration i > nlive_points in which the budget rule does not *)
(* fire, the loop stops in that iteration if and only if rule (b) or rule  *)
(* (c) holds; otherwise it draws exactly one more point, merges it and     *)
(* continues with iteration i + 1.                                         *)
(***************************************************************************)
C2_Theorem == []C2_Decision /\ [][C2_Continues]_vars

\* C2 witness: the loop was left by rule (c) alone, the budget rule and
\* rule (b) not holding.
C2_Witness ==
    /\ Evaluated
    /\ pc = "exit"
    /\ ~(max_samples # None /\ max_samples < sampler.ndraws)
    /\ ~C2_RuleB
    /\ C2_RuleC

(***************************************************************************)
(* C3: the loop is never left, and nothing is reported, in an iteration    *)
(* i <= nlive_points; the returned niterations is strictly greater than    *)
(* nlive_points, also when max_samples is smaller than nlive_points.       *)
(***************************************************************************)
C3_Theorem ==
    /\ pc \in {"exit", "done"} => i > nlive_points
    /\ printed # "nothing" => i > nlive_points
    /\ result.set => result.niterations > nlive_points

\* C3 witness: max_samples below nlive_points, and the run still went past
\* nlive_points iterations before it stopped on the budget.
C3_Witness ==
    /\ pc = "done"
    /\ max_samples # None
    /\ max_samples < nlive_points
    /\ printed = "maximum number of samples reached"
    /\ result.niterations = nlive_points + 1

\* The number of iterations 1..n in which line 164 calls integrate_remainder.
RecomputesUpTo(n) ==
    Cardinality({k \in 1..n : k = 1 \/ (k > nlive_points /\ k % 10 = 1)})

\* C4: the returned weights.
C4_Final ==
    pc = "done" =>
        /\ calls.integrate = RecomputesUpTo(i) + 1
        /\ result.niterations = i
        /\ result.weights = weights
        /\ Len(weights) = i + Len(sampler.live)
        /\ Len(sampler.live) = nlive_points
        /\ \A k \in 1..i :
              weights[k].id = drawn[k].id /\ weights[k].L = drawn[k].L
        /\ \A k \in 1..Len(sampler.live) :
              /\ weights[i + k].id = sampler.live[k].id
              /\ weights[i + k].L = sampler.live[k].L
              /\ weights[i + k].logwidth = weights[i].logwidth

\* C4: weight records are only ever appended.
C4_AppendOnly ==
    /\ Len(weights') >= Len(weights)
    /\ \A k \in 1..Len(weights) : weights'[k] = weights[k]

\* C4: leaving the loop is followed by one integrate_remainder call.
C4_OneFinalCall ==
    pc = "exit" => (pc' = "done" /\ calls'.integrate = calls.integrate + 1)

(***************************************************************************)
(* C4: on every exit path exactly one final integrate_remainder call is    *)
(* made after the loop, and the returned weights are niterations drawn     *)
(* records in draw order followed by one record per live point in          *)
(* remainder() order, each live record carrying the logwidth of the final  *)
(* iteration; no record already appended is ever changed or removed.       *)
(***************************************************************************)
C4_Theorem == []C4_Final /\ [][C4_AppendOnly /\ C4_OneFinalCall]_vars

\* C4 witness: a returned run with three live points appended after the
\* drawn records, the loop having been left by the diminishing-returns rule.
C4_Witness ==
    /\ pc = "done"
    /\ printed = "tolerance will not improve"
    /\ nlive_points = 3
    /\ Len(result.weights) = result.niterations + 3
    /\ result.weights[result.niterations + 1].L < result.weights[result.niterations + 3].L

(***************************************************************************)
(* C5: every run that stops through the tolerance rule returns             *)
(* logZerr < tolerance, so that a returned logZerr >= tolerance identifies *)
(* a run that did not stop because the tolerance was reached.              *)
(***************************************************************************)
C5_Claim ==
    (pc = "done" /\ printed = "tolerance on error reached")
        => flt(result.logZerr, tolerance)

\* A run whose every next() call cost one likelihood evaluation.
C6_UnitCost == sampler.cost = 1 /\ sampler.ndraws = nlive_points + calls.next

(***************************************************************************)
(* C6, as stated: with a Sampler whose ndraws grows by one per next()      *)
(* call, a run that stops on the budget stops exactly at that draw count:  *)
(* at termination sampler.ndraws equals max_samples.                       *)
(***************************************************************************)
C6_Original ==
    (pc = "done" /\ printed = "maximum number of samples reached" /\ C6_UnitCost)
        => sampler.ndraws = max_samples

(***************************************************************************)
(* C6, amended: with a Sampler whose ndraws grows by one per next() call,  *)
(* a run that stops on the budget stops one draw past the limit: at        *)
(* termination sampler.ndraws = max_samples + 1, unless the limit was      *)
(* already exceeded at the first checked iteration i = nlive_points + 1,   *)
(* where sampler.ndraws exceeds max_samples by at least one.               *)
(***************************************************************************)
C6_Amended ==
    (pc = "done" /\ printed = "maximum number of samples reached" /\ C6_UnitCost)
        => /\ sampler.ndraws > max_samples
           /\ (sampler.ndraws = max_samples + 1 \/ i = nlive_points + 1)

\* C6 witness: a unit-cost run stopped by the budget after the first checked
\* iteration, one draw past the limit, with logZerr not below the tolerance.
C6_Witness ==
    /\ pc = "done"
    /\ printed = "maximum number of samples reached"
    /\ C6_UnitCost
    /\ i > nlive_points + 1
    /\ sampler.ndraws = max_samples + 1
    /\ ~flt(result.logZerr, tolerance)

\* C7: logVolremaining after i iterations.
C7_VolumeAt == logVolremaining = 0 - i * (Scale \div nlive_points)

\* C7: an iteration lowers logVolremaining by 1 / nlive_points, and nothing
\* else changes it.
C7_Volume ==
    /\ i' # i => i' = i + 1
    /\ i' = i + 1 =>
          /\ flt(logVolremaining', logVolremaining)
          /\ logVolremaining' = fsub(logVolremaining, fdiv(FromInt(1), nlive_points))
    /\ i' = i => logVolremaining' = logVolremaining

\* C7: a merge never lowers logZ, and only a merge changes it after the seed.
C7_Evidence ==
    /\ (pc = "next" /\ pc' = "loop") => (~IsNaN(logZ') /\ ~flt(logZ', logZ))
    /\ (pc \in {"loop", "exit"}) => logZ' = logZ

(***************************************************************************)
(* C7: logVolremaining is strictly smaller after each iteration than       *)
(* before it, dropping by 1 / nlive_points once per iteration, the         *)
(* terminating iteration included; logZ after each accumulator merge is    *)
(* never smaller than before the merge.                                    *)
(***************************************************************************)
C7_Theorem == []C7_VolumeAt /\ [][C7_Volume /\ C7_Evidence]_vars

\* C7 witness: the loop was left in iteration i >= 3, the volume lowered i
\* times, and the merges have raised logZ above its seed.
C7_Witness ==
    /\ pc = "exit"
    /\ i >= 3
    /\ logVolremaining = 0 - i * (Scale \div nlive_points)
    /\ flt(fadd(weights[1].logwidth, weights[1].L), logZ)

\* No Sampler call starts while a next() call is in progress.
NoOverlap == calls' # calls => ~busy

(***************************************************************************)
(* C8, as stated: every loop iteration issues exactly one sampler.next()   *)
(* call, and no Sampler call starts before the previous one has returned.  *)
(***************************************************************************)
C8_Original ==
    [][(i' = i + 1 => calls'.next = calls.next + 1) /\ NoOverlap]_vars

\* C8: the number of next() calls started, by position in the function.
C8_Count ==
    /\ pc \in {"loop", "next"} => calls.next = i + 1
    /\ pc \in {"exit", "done"} => calls.next = i
    /\ busy => pc \in {"seed", "next"}

\* C8: the next() calls one step starts.
C8_Calls ==
    /\ i' = i + 1 => calls'.next = calls.next + (IF pc' = "exit" THEN 0 ELSE 1)
    /\ (i' = i /\ calls'.next # calls.next) => (pc = "init" /\ calls'.next = 1)

(***************************************************************************)
(* C8, amended: one sampler.next() call is issued before the loop and      *)
(* exactly one in every loop iteration except the terminating one, which   *)
(* issues none (niterations calls in all); no next() or remainder() call   *)
(* starts before the previous Sampler call has returned.                   *)
(***************************************************************************)
C8_Amended == []C8_Count /\ [][C8_Calls /\ NoOverlap]_vars

\* C8 witness: a returned run of at least three iterations: as many next()
\* calls as iterations, and remainder() called by each integrate_remainder
\* and once more for the weights.
C8_Witness ==
    /\ pc = "done"
    /\ i >= 3
    /\ calls.next = i
    /\ calls.remainder = calls.integrate + 1
    /\ ~busy

(***************************************************************************)
(* C9: the returned logZ and logZerr are those of the integrate_remainder  *)
(* call made after the loop, on the loop's final state: logZ is its        *)
(* totalZ; logZerr is the maximum of its totalZerr and its                 *)
(* totalZerr_bootstrapped when need_robust_remainder_error is set, and its *)
(* totalZerr alone when it is not.                                         *)
(***************************************************************************)
C9_Theorem ==
    pc = "done" =>
        \E r \in integrate_remainder(SamplerRemainder(sampler), nlive_points,
                     logwidth, logVolremaining, logZ, H, sampler.Lmax) :
            /\ result.logZ = r.totalZ
            /\ totalZerr_bootstrapped = r.totalZerr_bootstrapped
            /\ result.logZerr =
                  IF need_robust_remainder_error
                     /\ flt(r.totalZerr, r.totalZerr_bootstrapped)
                  THEN r.totalZerr_bootstrapped
                  ELSE r.totalZerr

\* C9 witness: a robust run whose returned logZerr is the bootstrap-based
\* error, the bracket-based error of the final integration being smaller.
C9_Witness ==
    /\ pc = "done"
    /\ need_robust_remainder_error
    /\ result.logZerr = totalZerr_bootstrapped
    /\ \E r \in integrate_remainder(SamplerRemainder(sampler), nlive_points,
                    logwidth, logVolremaining, logZ, H, sampler.Lmax) :
          /\ r.totalZerr_bootstrapped = totalZerr_bootstrapped
          /\ flt(r.totalZerr, totalZerr_bootstrapped)

(***************************************************************************)
(* The accumulator merge on its own: lines 189-193 applied once to an      *)
(* accumulator (logZ, H), a logwidth and a point, all drawn from sets that *)
(* include a zero prior mass (logwidth = -inf) and a zero likelihood       *)
(* (L = -inf).                                                             *)
(***************************************************************************)
\* Finite values of logZ and of H the merge is applied to.
AccumulatorValues == {0 - 3 * Scale, 0 - Scale \div 4, 0, Scale \div 2, 2 * Scale}

\* Log prior masses of the merged point.
MergeWidths == {NegInf, LogShrink(1), LogShrink(3) - Scale}

\* Log-likelihoods of the merged point.
MergeLevels == Levels \cup {NegInf}

InitMerge ==
    /\ tolerance = Scale \div 100
    /\ max_samples = None
    /\ need_small_remainder = TRUE
    /\ max_remainder = Scale \div 10
    /\ need_robust_remainder_error = FALSE
    /\ nlive_points = 1
    /\ sampler = [live |-> <<Point(1, 0)>>, Lmax |-> 0, ndraws |-> 1, cost |-> 1,
                  nextid |-> 2]
    /\ pc = "next"
    /\ i = 1
    /\ logVolremaining = 0
    /\ logwidth \in MergeWidths
    /\ weights = <<>>
    /\ pt \in {Point(0, l) : l \in MergeLevels}
    /\ logZ \in AccumulatorValues
    /\ H \in AccumulatorValues
    /\ logZerr = Unbound
    /\ remainderZ = Unbound
    /\ remainderZerr = Unbound
    /\ totalZ = Unbound
    /\ totalZerr = Unbound
    /\ totalZerr_bootstrapped = Unbound
    /\ estimated_at = 0
    /\ printed = "nothing"
    /\ result = [set |-> FALSE]
    /\ busy = TRUE
    /\ calls = [next |-> 1, remainder |-> 0, integrate |-> 0]
    /\ drawn = <<>>

\* Lines 190-193 for the point pt that next() has just returned.
MergePoint ==
    /\ pc = "next"
    /\ LET m == merge(logZ, H, logwidth, pt.L)
       IN  /\ logZ' = m.logZ
           /\ H' = m.H
    /\ drawn' = Append(drawn, WeightRecord(pt, logwidth))
    /\ busy' = FALSE
    /\ pc' = "loop"
    /\ UNCHANGED <<args, sampler, i, logVolremaining, logwidth, weights, pt, logZerr,
                   estimate, printed, result, calls>>

NextMerge == MergePoint

SpecMerge == InitMerge /\ [][NextMerge]_vars

(***************************************************************************)
(* C10: merging (logZ, H), both finite, with a point whose mass            *)
(* logwidth + L is -infinity leaves logZ and H unchanged, whether it is    *)
(* the logwidth or the likelihood L that is -infinity.                     *)
(***************************************************************************)
C10_Claim ==
    [][(pc = "next" /\ fadd(logwidth, pt.L) = NegInf)
          => (logZ' = logZ /\ H' = H)]_vars

(***************************************************************************)
(* The remainder estimator on its own: one integrate_remainder call on a   *)
(* live set, an accumulator (logZ, H), a logwidth and a global maximum     *)
(* likelihood, all drawn from sets.                                        *)
(***************************************************************************)
\* Values of logZ the estimator is called with.
EstimatorEvidence == {0 - 3 * Scale, 0, 2 * Scale}

\* Values of H the estimator is called with.
EstimatorInformation == {Scale \div 4, 2 * Scale}

\* Numbers of iterations made before the estimator is called.
EstimatorIterations == {1, 4}

InitRemainder ==
    /\ tolerance = Scale \div 2
    /\ max_samples = None
    /\ need_small_remainder = TRUE
    /\ max_remainder = Scale \div 10
    /\ need_robust_remainder_error = FALSE
    /\ nlive_points \in NlivePoints
    /\ \E s \in LiveSets(nlive_points), g \in Levels :
          /\ IsAscending(s)
          /\ g >= s[Len(s)].L
          /\ sampler = [live |-> s, Lmax |-> g, ndraws |-> nlive_points,
                        cost |-> 1, nextid |-> nlive_points + 1]
    /\ pc = "estimate"
    /\ i \in EstimatorIterations
    /\ logVolremaining = 0 - i * (Scale \div nlive_points)
    /\ logwidth = fadd(LogShrink(nlive_points), 0 - (i - 1) * (Scale \div nlive_points))
    /\ weights = <<>>
    /\ pt = Point(0, Unbound)
    /\ logZ \in EstimatorEvidence
    /\ H \in EstimatorInformation
    /\ logZerr = Unbound
    /\ remainderZ = Unbound
    /\ remainderZerr = Unbound
    /\ totalZ = Unbound
    /\ totalZerr = Unbound
    /\ totalZerr_bootstrapped = Unbound
    /\ estimated_at = 0
    /\ printed = "nothing"
    /\ result = [set |-> FALSE]
    /\ busy = FALSE
    /\ calls = [next |-> 0, remainder |-> 0, integrate |-> 0]
    /\ drawn = <<>>

\* Lines 165-166: one call of integrate_remainder and the assignment of the
\* five values it returns.
CallEstimator ==
    /\ pc = "estimate"
    /\ \E est \in integrate_remainder(SamplerRemainder(sampler), nlive_points,
                      logwidth, logVolremaining, logZ, H, sampler.Lmax) :
          /\ remainderZ' = est.remainderZ
          /\ remainderZerr' = est.remainderZerr
          /\ totalZ' = est.totalZ
          /\ totalZerr' = est.totalZerr
          /\ totalZerr_bootstrapped' = est.totalZerr_bootstrapped
    /\ estimated_at' = i
    /\ calls' = [calls EXCEPT !.remainder = @ + 1, !.integrate = @ + 1]
    /\ pc' = "estimated"
    /\ UNCHANGED <<args, sampler, i, logVolremaining, logwidth, weights, pt, logZ, H,
                   logZerr, printed, result, busy, drawn>>

NextRemainder == CallEstimator

SpecRemainder == InitRemainder /\ [][NextRemainder]_vars

\* The live points all have the same likelihood.
AllLiveEqual == \A k \in 1..Len(sampler.live) : sampler.live[k].L = sampler.live[1].L

\* The three evidence estimates of the call just made coincide and the
\* returned remainderZerr is zero.
EstimatesCoincide ==
    LET b == Brackets(SamplerRemainder(sampler), logwidth, logZ, sampler.Lmax)
    IN  /\ b.Lmax = b.Lmid /\ b.Lmin = b.Lmid
        /\ b.logZup = b.logZlo /\ b.logZlo = b.logZmid
        /\ totalZ = b.logZmid
        /\ remainderZerr = 0

(***************************************************************************)
(* C11, as stated: when all live likelihoods are equal, the upper, lower   *)
(* and mid sums coincide, logZup = logZlo = logZmid and remainderZerr is   *)
(* zero, for every global maximum likelihood passed in.                    *)
(***************************************************************************)
C11_Original == (pc = "estimated" /\ AllLiveEqual) => EstimatesCoincide

(***************************************************************************)
(* C11, amended: when all live likelihoods are equal and the global        *)
(* maximum likelihood passed in is that same likelihood, the upper, lower  *)
(* and mid sums coincide, logZup = logZlo = logZmid and remainderZerr is   *)
(* zero.                                                                   *)
(***************************************************************************)
C11_Amended ==
    (pc = "estimated" /\ AllLiveEqual /\ sampler.Lmax = sampler.live[1].L)
        => EstimatesCoincide

\* C11 witness: three equal live points below the top level, the global
\* maximum equal to them, and a zero remainderZerr returned.
C11_Witness ==
    /\ pc = "estimated"
    /\ nlive_points = 3
    /\ AllLiveEqual
    /\ sampler.Lmax = sampler.live[1].L
    /\ sampler.live[1].L = 0
    /\ remainderZerr = 0
    /\ totalZ = logaddexp(logZ, fadd(fadd(logwidth, log(FromInt(3))), 0))

(***************************************************************************)
(* C12: for every drawn point, the logwidth stored in its weight record    *)
(* equals the logwidth that was added to its log-likelihood when the point *)
(* was merged into logZ (the seed for the first point, the accumulator     *)
(* merge for every later point).                                           *)
(***************************************************************************)
C12_Claim ==
    pc = "done" =>
        \A k \in 1..result.niterations :
            /\ result.weights[k].id = drawn[k].id
            /\ result.weights[k].logwidth = drawn[k].logwidth

\* Line 164 for iteration it, written out.
RecomputingIteration(it) == it = 1 \/ (it > nlive_points /\ it % 10 = 1)

\* C13: an iteration calls integrate_remainder exactly when it is the first
\* or a tenth one past nlive_points, and then assigns the five locals from
\* that call on the iteration's own state; any other iteration, and the
\* arrival of a point, leaves the five locals as they are.
C13_Step ==
    /\ i' = i + 1 =>
          /\ (calls'.integrate = calls.integrate + 1) <=> RecomputingIteration(i')
          /\ calls'.integrate \in {calls.integrate, calls.integrate + 1}
          /\ RecomputingIteration(i') =>
                Estimate' \in integrate_remainder(SamplerRemainder(sampler),
                                  nlive_points, logwidth', logVolremaining', logZ, H,
                                  sampler.Lmax)
          /\ ~RecomputingIteration(i') => Estimate' = Estimate
    /\ (i' = i /\ pc # "exit") =>
          (Estimate' = Estimate /\ calls'.integrate = calls.integrate)

(***************************************************************************)
(* C13: inside the loop the remainder estimate is recomputed in the first  *)
(* iteration and in every iteration i > nlive_points with i mod 10 = 1,    *)
(* and in no other iteration; in all other iterations remainderZ,          *)
(* remainderZerr, totalZ, totalZerr and totalZerr_bootstrapped keep the    *)
(* values of the last recomputation.                                       *)
(***************************************************************************)
C13_Theorem == [][C13_Step]_vars

\* C13 witness: iteration 12 has been made with the estimate of iteration
\* 11, the second integrate_remainder call of the run.
C13_Witness ==
    /\ pc \in {"next", "exit"}
    /\ i = 12
    /\ estimated_at = 11
    /\ calls.integrate = 2

(***************************************************************************)
(* C14: whenever a stopping predicate is evaluated (i > nlive_points), the *)
(* remainder values it reads were produced by an integrate_remainder call  *)
(* made at an iteration greater than nlive_points and at most 9 iterations *)
(* before the current one; the loop never stops on the estimate computed   *)
(* at iteration 1.                                                         *)
(***************************************************************************)
C14_Claim ==
    Evaluated =>
        /\ estimated_at > nlive_points
        /\ estimated_at >= i - 9
        /\ estimated_at <= i

\* The information after the trailing loop of integrate_remainder (lines
\* 93-98) has merged every live point, at the one logwidth, into the pair
\* (logZ, H) the caller passed in.
InformationWithLive ==
    MergeAll(SamplerRemainder(sampler), 1, logwidth, [logZ |-> logZ, H |-> H]).H

\* The three returned values that do not depend on H, as lines 74-78 give
\* them.
BracketOutputs ==
    LET b == Brackets(SamplerRemainder(sampler), logwidth, logZ, sampler.Lmax)
    IN  /\ remainderZ = fadd(logwidth, b.logLmid)
        /\ remainderZerr = fsub(b.logZup, b.logZlo)
        /\ totalZ = b.logZmid

\* The two returned errors are the bracket and a bootstrap spread, each
\* raised by sqrt(h / nlive_points).
ErrorsUse(h) ==
    LET b == Brackets(SamplerRemainder(sampler), logwidth, logZ, sampler.Lmax)
        stat == pow_half(fdiv(h, nlive_points))
    IN  /\ totalZerr = fadd(remainderZerr, stat)
        /\ \E bs \in BootstrapErrors(b.Ls, b.LsMax, logZ, logwidth, b.L0) :
              totalZerr_bootstrapped = fadd(bs, stat)

(***************************************************************************)
(* C15, as stated: the trailing loop of integrate_remainder has no effect  *)
(* on the output; all five returned values are as if the loop were         *)
(* deleted, totalZerr and totalZerr_bootstrapped using the H that the      *)
(* caller passed in.                                                       *)
(***************************************************************************)
C15_Original == pc = "estimated" => (BracketOutputs /\ ErrorsUse(H))

(***************************************************************************)
(* C15, amended: the trailing loop leaves remainderZ, remainderZerr and    *)
(* totalZ as they are, and its logZ is not used, but its H is: totalZerr   *)
(* and totalZerr_bootstrapped add sqrt(H'/N), H' being the information     *)
(* after the live points have been merged into the H passed in.            *)
(***************************************************************************)
C15_Amended == pc = "estimated" => (BracketOutputs /\ ErrorsUse(InformationWithLive))

\* C15 witness: a call whose finite totalZerr differs from the one the H
\* passed in would give.
C15_Witness ==
    /\ pc = "estimated"
    /\ nlive_points = 2
    /\ IsFinite(totalZerr)
    /\ IsFinite(pow_half(fdiv(H, nlive_points)))
    /\ totalZerr # fadd(remainderZerr, pow_half(fdiv(H, nlive_points)))
    /\ ErrorsUse(InformationWithLive)

(***************************************************************************)
(* C18: for a live set sorted ascending and a global maximum not below the *)
(* best live likelihood, the three sums are ordered lower <= mid <= upper, *)
(* so logZlo <= logZmid <= logZup and the returned remainderZerr is never  *)
(* negative; a live set of one point included.                             *)
(***************************************************************************)
C18_Theorem ==
    (/\ pc = "estimated"
     /\ IsAscending(SamplerRemainder(sampler))
     /\ sampler.Lmax >= sampler.live[Len(sampler.live)].L) =>
        LET b == Brackets(SamplerRemainder(sampler), logwidth, logZ, sampler.Lmax)
        IN  /\ b.Lmin <= b.Lmid /\ b.Lmid <= b.Lmax
            /\ ~IsNaN(b.logZlo) /\ ~IsNaN(b.logZmid) /\ ~IsNaN(b.logZup)
            /\ b.logZlo <= b.logZmid /\ b.logZmid <= b.logZup
            /\ remainderZerr = fsub(b.logZup, b.logZlo)
            /\ ~IsNaN(remainderZerr)
            /\ remainderZerr >= 0

\* C18 witness: three live points with the three sums strictly ordered and
\* a positive remainderZerr returned.
C18_Witness ==
    /\ pc = "estimated"
    /\ nlive_points = 3
    /\ LET b == Brackets(SamplerRemainder(sampler), logwidth, logZ, sampler.Lmax)
       IN  /\ b.Lmin < b.Lmid /\ b.Lmid < b.Lmax
           /\ b.logZlo < b.logZmid /\ b.logZmid < b.logZup
    /\ IsFinite(remainderZerr)
    /\ remainderZerr > 0

\* The reference likelihood that the call just made subtracted.
RebasedAt == Brackets(SamplerRemainder(sampler), logwidth, logZ, sampler.Lmax).L0

(***************************************************************************)
(* C19, as stated: for a live set sorted ascending by likelihood, the      *)
(* reference L0 that integrate_remainder subtracts before exponentiating   *)
(* is the minimum log-likelihood of the live set.                          *)
(***************************************************************************)
C19_Original ==
    (pc = "estimated" /\ IsAscending(SamplerRemainder(sampler))) =>
        \A k \in 1..Len(sampler.live) : RebasedAt <= sampler.live[k].L

(***************************************************************************)
(* C19, amended: for a live set sorted ascending by likelihood, the        *)
(* reference L0 is the maximum log-likelihood of the live set (its last    *)
(* entry), so no rebased likelihood exceeds exp(0) = 1.                    *)
(***************************************************************************)
C19_Amended ==
    (pc = "estimated" /\ IsAscending(SamplerRemainder(sampler))) =>
        LET b == Brackets(SamplerRemainder(sampler), logwidth, logZ, sampler.Lmax)
        IN  /\ \A k \in 1..Len(sampler.live) : b.L0 >= sampler.live[k].L
            /\ \E k \in 1..Len(sampler.live) : b.L0 = sampler.live[k].L
            /\ \A k \in 1..Len(b.Ls) : b.Ls[k] <= Scale

\* C19 witness: a call on live points of different likelihoods, rebased at
\* the highest of them.
C19_Witness ==
    /\ pc = "estimated"
    /\ nlive_points = 3
    /\ sampler.live[1].L < sampler.live[3].L
    /\ RebasedAt = sampler.live[3].L
    /\ RebasedAt > sampler.live[1].L

\* A step that calls integrate_remainder leaves the accumulator as the
\* loop set it: logZ and H keep their values; in an iteration logwidth,
\* logVolremaining and the weights change only by lines 145-148, which come
\* before the call; at the end they change only by line 198, and the result
\* carries the loop's H and the estimator's totalZ.
C17_Step ==
    (calls'.integrate = calls.integrate + 1) =>
        /\ logZ' = logZ
        /\ H' = H
        /\ pc = "loop" =>
              /\ logwidth' = fadd(LogShrink(nlive_points), logVolremaining)
              /\ logVolremaining' =
                    fsub(logVolremaining, fdiv(FromInt(1), nlive_points))
              /\ weights' = Append(weights, WeightRecord(pt, logwidth'))
        /\ pc = "exit" =>
              /\ logwidth' = logwidth
              /\ logVolremaining' = logVolremaining
              /\ SubSeq(weights', 1, Len(weights)) = weights
              /\ Len(weights') = Len(weights) + nlive_points
              /\ result'.information = H
              /\ result'.logZ = Brackets(SamplerRemainder(sampler), logwidth,
                                         logZ, sampler.Lmax).logZmid

\* H is written by the seed and by the accumulator merge only.
C17_Owner ==
    (H' # H) =>
        \/ pc = "seed"
        \/ pc = "next" /\ H' = merge(logZ, H, logwidth, pt'.L).H

\* The result carries the loop's H, and as logZ the estimate that has the
\* live points merged in.
C17_Returned ==
    pc = "done" =>
        /\ result.information = H
        /\ result.logZ = totalZ
        /\ result.logZ = logaddexp(logZ, remainderZ)

(***************************************************************************)
(* C17: a call of integrate_remainder only reads the integration state:    *)
(* after every call, periodic or final, the loop's logZ, H,                *)
(* logVolremaining, logwidth and the weight sequence are what the loop     *)
(* made them, so the returned information is the H of the last accumulator *)
(* merge and does not include the live points, while the returned logZ     *)
(* does.                                                                   *)
(***************************************************************************)
C17_Theorem == []C17_Returned /\ [][C17_Step /\ C17_Owner]_vars

\* C17 witness: a finished run of three iterations whose returned
\* information is the loop's H and differs from the information with the
\* live points merged in, while the returned logZ exceeds the loop's logZ.
C17_Witness ==
    /\ pc = "done"
    /\ result.niterations = 3
    /\ calls.integrate = 2
    /\ result.information = H
    /\ IsFinite(H) /\ IsFinite(InformationWithLive)
    /\ result.information # InformationWithLive
    /\ IsFinite(result.logZ)
    /\ result.logZ > logZ

(***************************************************************************)
(* Termination.  nested_integrator is one sequential loop: every statement *)
(* of it runs once control reaches it, and the sampler is taken to return  *)
(* from every next() call.  Each step of the model is therefore taken      *)
(* once it is enabled (weak fairness).  The runs considered are those with *)
(* max_samples configured.                                                 *)
(***************************************************************************)
InitLive == Init /\ max_samples # None

\* ENABLED <<Seed \/ Iterate \/ Merge \/ Finish>>_vars written out: the
\* sampler always has a point to return, integrate_remainder always returns,
\* and only the iteration bound of the model blocks the loop.
Running == pc \in {"seed", "next", "exit"} \/ (pc = "loop" /\ i < MaxIter)

\* Weak fairness of the loop's steps, WF_vars(Seed \/ Iterate \/ Merge \/ Finish),
\* with its enabling condition written as the state predicate Running.
LoopFairness == []<>(~Running) \/ []<><<Seed \/ Iterate \/ Merge \/ Finish>>_vars

SpecLive == InitLive /\ [][Next]_vars /\ WF_vars(CallFirst) /\ LoopFairness

\* An iteration past nlive_points that finds more draws than max_samples
\* leaves the loop, with the budget message.
C16_StopsAtBudget ==
    (/\ pc = "loop"
     /\ i' = i + 1
     /\ i' > nlive_points
     /\ max_samples # None
     /\ sampler.ndraws > max_samples) =>
        (pc' = "exit" /\ printed' = Message("budget") /\ calls'.next = calls.next)

(***************************************************************************)
(* C16: with max_samples configured and every sampler.next() call          *)
(* returning with ndraws increased by at least one, nested_integrator      *)
(* eventually returns, for every tolerance and every sequence of           *)
(* likelihoods; the loop stops no later than the first iteration           *)
(* i > nlive_points at which ndraws exceeds max_samples.                   *)
(***************************************************************************)
C16_Theorem ==
    /\ [][C16_StopsAtBudget]_vars
    /\ (max_samples # None) ~> (pc = "done")

\* C16 witness: the budget rule has ended a run, after several iterations,
\* whose error was still above the tolerance.
C16_Witness ==
    /\ pc = "done"
    /\ max_samples = 6
    /\ printed = Message("budget")
    /\ sampler.ndraws > max_samples
    /\ result.niterations > nlive_points + 1
    /\ IsFinite(result.logZerr)
    /\ result.logZerr > tolerance

=============================================================================
